---- MODULE Spec2Model ----
(***************************************************************************)
(* muxide_logging: the format template engine (format.rs), the records     *)
(* and severities (log.rs), the File and String sinks (logger.rs), the     *)
(* dispatch helpers (macros.rs) and the process-wide default sink guarded  *)
(* by a mutex (lib.rs).                                                    *)
(*                                                                         *)
(* A string is a sequence of one-character strings, so that rendering,     *)
(* decimal conversion, time formatting and the bytes of a file are         *)
(* computed character by character.  Option<T> is a sequence of length 0   *)
(* (None) or 1 (Some(x)).                                                  *)
(***************************************************************************)
EXTENDS Integers, Sequences, FiniteSets, TLC

None == <<>>
Some(x) == <<x>>
is_none(o) == Len(o) = 0
is_some(o) == Len(o) = 1
unwrap(o) == o[1]

NL == "\n"

(***************************************************************************)
(* Bounds of the model.                                                    *)
(***************************************************************************)
NumThreads == 2
MaxOps == 4
MaxFail == 2
MaxSlice == 2
MaxItems == 2

Threads == 1..NumThreads

(***************************************************************************)
(* log.rs                                                                  *)
(***************************************************************************)
LogLevel == {"Error", "Warning", "StateChange", "Information"}

as_str(l) ==
  CASE l = "Error" -> <<"E","r","r","o","r">>
    [] l = "Warning" -> <<"W","a","r","n","i","n","g">>
    [] l = "StateChange" -> <<"S","t","a","t","e","C","h","a","n","g","e">>
    [] l = "Information" -> <<"I","n","f","o","r","m","a","t","i","o","n">>

LogItem_new(format, level, message) ==
  [format |-> format, message |-> message, level |-> level]

(***************************************************************************)
(* format.rs: tokens                                                       *)
(***************************************************************************)
FormatItem_LineNumber == [tag |-> "LineNumber", arg |-> <<>>]
FormatItem_ColumnNumber == [tag |-> "ColumnNumber", arg |-> <<>>]
FormatItem_ModulePath == [tag |-> "ModulePath", arg |-> <<>>]
FormatItem_File == [tag |-> "File", arg |-> <<>>]
FormatItem_LogLevel == [tag |-> "LogLevel", arg |-> <<>>]
FormatItem_LogString == [tag |-> "LogString", arg |-> <<>>]
FormatItem_TimeString(p) == [tag |-> "TimeString", arg |-> p]
FormatItem_CustomCharacter(ch) == [tag |-> "CustomCharacter", arg |-> <<ch>>]
FormatItem_CustomString(s) == [tag |-> "CustomString", arg |-> s]

(***************************************************************************)
(* usize::to_string: the decimal digits, most significant first.           *)
(***************************************************************************)
DigitChar(d) == <<"0","1","2","3","4","5","6","7","8","9">>[d + 1]

\* Variant: the value 0 has no digit.
RECURSIVE usize_to_string_nonzero(_)
usize_to_string_nonzero(n) ==
  IF n = 0 THEN <<>>
  ELSE IF n < 10 THEN <<DigitChar(n)>>
  ELSE usize_to_string_nonzero(n \div 10) \o <<DigitChar(n % 10)>>

RECURSIVE usize_to_string(_)
usize_to_string(n) ==
  IF n < 10 THEN <<DigitChar(n)>>
  ELSE usize_to_string(n \div 10) \o <<DigitChar(n % 10)>>

(***************************************************************************)
(* chrono's DateTime::format for the directives the crate uses: %k is the  *)
(* hour padded with a space to two columns, %H, %M and %S are padded with  *)
(* a zero, %% is a percent sign, every other character is a literal.       *)
(* A timestamp is [h, m, s].                                               *)
(***************************************************************************)
Pad2(n, padch) ==
  IF n < 10 THEN <<padch, DigitChar(n)>> ELSE usize_to_string(n)

RECURSIVE DateTime_format(_, _)
DateTime_format(t, p) ==
  IF Len(p) = 0 THEN <<>>
  ELSE IF p[1] = "%" /\ Len(p) >= 2
       THEN (CASE p[2] = "k" -> Pad2(t.h, " ")
               [] p[2] = "H" -> Pad2(t.h, "0")
               [] p[2] = "M" -> Pad2(t.m, "0")
               [] p[2] = "S" -> Pad2(t.s, "0")
               [] OTHER -> <<p[2]>>)
            \o DateTime_format(t, SubSeq(p, 3, Len(p)))
       ELSE <<p[1]>> \o DateTime_format(t, Tail(p))

(***************************************************************************)
(* format.rs: Format                                                       *)
(***************************************************************************)
Format_new ==
  [items |-> <<>>, column |-> None, line |-> None, file |-> None,
   module_path |-> None, custom_time |-> None]

new_with_constant_time(constant_time) ==
  [Format_new EXCEPT !.custom_time = Some(constant_time)]

set_column(f, col) == [f EXCEPT !.column = Some(col)]
set_line(f, line) == [f EXCEPT !.line = Some(line)]
set_file(f, file) == [f EXCEPT !.file = Some(file)]
set_module_path(f, path) == [f EXCEPT !.module_path = Some(path)]
set_constant_time(f, time) == [f EXCEPT !.custom_time = Some(time)]
clear_constant_time(f) == [f EXCEPT !.custom_time = None]

append(f, item) == [f EXCEPT !.items = Append(@, item)]

\* Variant: the first token is removed.
pop_last_first(f) ==
  [f EXCEPT !.items = IF Len(@) = 0 THEN @ ELSE Tail(@)]

pop_last(f) ==
  [f EXCEPT !.items = IF Len(@) = 0 THEN @ ELSE SubSeq(@, 1, Len(@) - 1)]

\* Variant: the column is taken from the side the line is taken from.
merged_column_follows_line(a, b) ==
  [items |-> IF Len(a.items) = 0 THEN b.items ELSE a.items,
   column |-> IF is_none(a.line) THEN b.column ELSE a.column,
   line |-> IF is_none(a.line) THEN b.line ELSE a.line,
   file |-> IF is_none(a.file) THEN b.file ELSE a.file,
   module_path |-> IF is_none(a.module_path) THEN b.module_path
                   ELSE a.module_path,
   custom_time |-> IF is_none(a.custom_time) THEN b.custom_time
                   ELSE a.custom_time]

\* Variant: the fallback's tokens are appended to the preferred ones.
merged_tokens_combined(a, b) ==
  [items |-> a.items \o b.items,
   column |-> IF is_none(a.column) THEN b.column ELSE a.column,
   line |-> IF is_none(a.line) THEN b.line ELSE a.line,
   file |-> IF is_none(a.file) THEN b.file ELSE a.file,
   module_path |-> IF is_none(a.module_path) THEN b.module_path
                   ELSE a.module_path,
   custom_time |-> IF is_none(a.custom_time) THEN b.custom_time
                   ELSE a.custom_time]

merged(a, b) ==
  [items |-> IF Len(a.items) = 0 THEN b.items ELSE a.items,
   column |-> IF is_none(a.column) THEN b.column ELSE a.column,
   line |-> IF is_none(a.line) THEN b.line ELSE a.line,
   file |-> IF is_none(a.file) THEN b.file ELSE a.file,
   module_path |-> IF is_none(a.module_path) THEN b.module_path
                   ELSE a.module_path,
   custom_time |-> IF is_none(a.custom_time) THEN b.custom_time
                   ELSE a.custom_time]

(***************************************************************************)
(* The string one token renders to.  now is the reading of Local::now().   *)
(***************************************************************************)
\* Variant: a TimeString token formats the current time also when a
\* frozen timestamp is set.
item_string_live(f, item, log_level, log_message, now) ==
  CASE item.tag = "LineNumber" ->
         IF is_some(f.line) THEN usize_to_string(unwrap(f.line)) ELSE <<>>
    [] item.tag = "ColumnNumber" ->
         IF is_some(f.column) THEN usize_to_string(unwrap(f.column)) ELSE <<>>
    [] item.tag = "ModulePath" ->
         IF is_some(f.module_path) THEN unwrap(f.module_path) ELSE <<>>
    [] item.tag = "LogLevel" -> as_str(log_level)
    [] item.tag = "LogString" -> log_message
    [] item.tag = "TimeString" -> DateTime_format(now, item.arg)
    [] item.tag = "CustomCharacter" -> item.arg
    [] item.tag = "CustomString" -> item.arg
    [] item.tag = "File" ->
         IF is_some(f.file) THEN unwrap(f.file) ELSE <<>>

item_string(f, item, log_level, log_message, now) ==
  CASE item.tag = "LineNumber" ->
         IF is_some(f.line) THEN usize_to_string(unwrap(f.line)) ELSE <<>>
    [] item.tag = "ColumnNumber" ->
         IF is_some(f.column) THEN usize_to_string(unwrap(f.column)) ELSE <<>>
    [] item.tag = "ModulePath" ->
         IF is_some(f.module_path) THEN unwrap(f.module_path) ELSE <<>>
    [] item.tag = "LogLevel" -> as_str(log_level)
    [] item.tag = "LogString" -> log_message
    [] item.tag = "TimeString" ->
         IF is_some(f.custom_time)
         THEN DateTime_format(unwrap(f.custom_time), item.arg)
         ELSE DateTime_format(now, item.arg)
    [] item.tag = "CustomCharacter" -> item.arg
    [] item.tag = "CustomString" -> item.arg
    [] item.tag = "File" ->
         IF is_some(f.file) THEN unwrap(f.file) ELSE <<>>

RECURSIVE join_items(_, _, _, _, _)
join_items(f, items, log_level, log_message, now) ==
  IF Len(items) = 0 THEN <<>>
  ELSE item_string(f, items[1], log_level, log_message, now)
       \o join_items(f, Tail(items), log_level, log_message, now)

build_string(f, log_level, log_message, now) ==
  join_items(f, f.items, log_level, log_message, now)

\* Variant: each token is put in front of the ones before it.
RECURSIVE build_format_from_items_front(_)
build_format_from_items_front(items) ==
  IF Len(items) = 0 THEN Format_new
  ELSE [build_format_from_items_front(SubSeq(items, 1, Len(items) - 1))
          EXCEPT !.items = <<items[Len(items)]>> \o @]

RECURSIVE build_format_from_items(_)
build_format_from_items(items) ==
  IF Len(items) = 0 THEN Format_new
  ELSE append(build_format_from_items(SubSeq(items, 1, Len(items) - 1)),
              items[Len(items)])

Format_default ==
  build_format_from_items(<<
    FormatItem_CustomCharacter("["),
    FormatItem_TimeString(<<"%","k",":","%","M",":","%","S">>),
    FormatItem_CustomString(<<"]"," ","(">>),
    FormatItem_ModulePath,
    FormatItem_CustomCharacter(" "),
    FormatItem_LineNumber,
    FormatItem_CustomCharacter(":"),
    FormatItem_ColumnNumber,
    FormatItem_CustomString(<<")"," ">>),
    FormatItem_LogLevel,
    FormatItem_CustomString(<<":"," ">>),
    FormatItem_LogString >>)

default_format(col, line, module, file) ==
  set_file(set_module_path(set_line(set_column(Format_default, col), line),
                           module), file)

LogItem_into(item, now) ==
  build_string(item.format, item.level, item.message, now)

(***************************************************************************)
(* logger.rs: FileLogger and StringLogger                                  *)
(***************************************************************************)
contains(v, x) == \E i \in 1..Len(v) : v[i] = x

position(v, x) ==
  IF contains(v, x)
  THEN Some(CHOOSE i \in 1..Len(v) : v[i] = x /\ \A j \in 1..(i - 1) : v[j] # x)
  ELSE None

remove(v, idx) == SubSeq(v, 1, idx - 1) \o SubSeq(v, idx + 1, Len(v))

FileLogger_new ==
  [file |-> None, panic_on_fail |-> FALSE, override_format |-> None,
   restricted_log_levels |-> <<>>]

set_panic_on_fail(l, b) == [l EXCEPT !.panic_on_fail = b]

FileLogger_set_override(l, override_format) ==
  [l EXCEPT !.override_format = Some(override_format)]

\* Variant: a failed open drops the handle held before.
open_file_drops(l, path, opened) ==
  IF opened THEN [l EXCEPT !.file = Some(path)] ELSE [l EXCEPT !.file = None]

\* OpenOptions::open fails (opened = FALSE) or yields a handle on path.
open_file(l, path, opened) ==
  IF opened THEN [l EXCEPT !.file = Some(path)] ELSE l

\* Variant: closing puts the sink back to the state of FileLogger::new().
close_file_reset(l) ==
  [file |-> None, panic_on_fail |-> FALSE, override_format |-> None,
   restricted_log_levels |-> <<>>]

\* Variant: the handle is kept.
close_file_kept(l) == l

close_file(l) == [l EXCEPT !.file = None]

\* Variant: a level is pushed without the contains check.
RECURSIVE FileLogger_restrict_log_levels_push(_, _)
FileLogger_restrict_log_levels_push(l, levels) ==
  IF Len(levels) = 0 THEN l
  ELSE FileLogger_restrict_log_levels_push(
         [l EXCEPT !.restricted_log_levels = Append(@, levels[1])],
         Tail(levels))

RECURSIVE FileLogger_restrict_log_levels(_, _)
FileLogger_restrict_log_levels(l, levels) ==
  IF Len(levels) = 0 THEN l
  ELSE FileLogger_restrict_log_levels(
         IF ~contains(l.restricted_log_levels, levels[1])
         THEN [l EXCEPT !.restricted_log_levels = Append(@, levels[1])]
         ELSE l,
         Tail(levels))

\* Variant: a level that is not found removes the first entry.
RECURSIVE FileLogger_allow_log_levels_first(_, _)
FileLogger_allow_log_levels_first(l, levels) ==
  IF Len(levels) = 0 THEN l
  ELSE FileLogger_allow_log_levels_first(
         IF is_some(position(l.restricted_log_levels, levels[1]))
         THEN [l EXCEPT !.restricted_log_levels =
                 remove(@, unwrap(position(@, levels[1])))]
         ELSE [l EXCEPT !.restricted_log_levels = remove(@, 1)],
         Tail(levels))

RECURSIVE FileLogger_allow_log_levels(_, _)
FileLogger_allow_log_levels(l, levels) ==
  IF Len(levels) = 0 THEN l
  ELSE FileLogger_allow_log_levels(
         IF is_some(position(l.restricted_log_levels, levels[1]))
         THEN [l EXCEPT !.restricted_log_levels =
                 remove(@, unwrap(position(@, levels[1])))]
         ELSE l,
         Tail(levels))

\* Variant: a record with an empty message is declined.
FileLogger_can_log_item_nonempty(l, item) ==
  ~contains(l.restricted_log_levels, item.level) /\ Len(item.message) > 0

FileLogger_can_log_item(l, item) ==
  ~contains(l.restricted_log_levels, item.level)

\* The default of the Logger trait, which StringLogger inherits.
Logger_can_log_item(item) == TRUE

\* Variant: the override template is not consulted.
FileLogger_text_record_only(l, item, now) == LogItem_into(item, now)

\* The text log_item renders when it holds a handle (logger.rs 153-160).
FileLogger_text(l, item, now) ==
  IF is_some(l.override_format)
  THEN build_string(merged(unwrap(l.override_format), item.format),
                    item.level, item.message, now)
  ELSE LogItem_into(item, now)

NoPath == "-"

\* Variant: a missing handle counts as a failed write.
FileLogger_log_item_strict(l, item, now) ==
  IF is_some(l.file)
  THEN [writes |-> TRUE, panics |-> FALSE, path |-> unwrap(l.file),
        text |-> FileLogger_text(l, item, now)]
  ELSE [writes |-> FALSE, panics |-> l.panic_on_fail, path |-> NoPath, text |-> <<>>]

\* The entry of FileLogger::log_item: with a handle it renders the text and
\* goes on to write it, without one it does nothing at all.
FileLogger_log_item(l, item, now) ==
  IF is_some(l.file)
  THEN [writes |-> TRUE, panics |-> FALSE, path |-> unwrap(l.file),
        text |-> FileLogger_text(l, item, now)]
  ELSE [writes |-> FALSE, panics |-> FALSE, path |-> NoPath, text |-> <<>>]

StringLogger_new == [override_format |-> None]

StringLogger_set_override(s, format) == [s EXCEPT !.override_format = Some(format)]

\* Variant: the record's template is preferred to the override.
StringLogger_log_item_swapped(s, item, now) ==
  IF is_some(s.override_format)
  THEN build_string(merged(item.format, unwrap(s.override_format)),
                    item.level, item.message, now)
  ELSE LogItem_into(item, now)

StringLogger_log_item(s, item, now) ==
  IF is_some(s.override_format)
  THEN build_string(merged(unwrap(s.override_format), item.format),
                    item.level, item.message, now)
  ELSE LogItem_into(item, now)

(***************************************************************************)
(* macros.rs: __log_message.  can is the answer of can_log_item, res the   *)
(* value log_item returns when it is invoked.  events lists the sink       *)
(* methods invoked, in order.                                              *)
(***************************************************************************)
RetNone == [kind |-> "None", val |-> <<>>]
RetSome(v) == [kind |-> "Some", val |-> v]
RetOk == [kind |-> "Ok", val |-> <<>>]
RetErr(e) == [kind |-> "Err", val |-> <<e>>]
NoRet == [kind |-> "-", val |-> <<>>]

Unit == <<>>

\* Variant: log_item is invoked whatever can_log_item answers.
__log_message_unfiltered(can, res) ==
  [invoke |-> TRUE, ret |-> RetSome(res), events |-> <<"can_log_item", "log_item">>]

\* Variant: the value log_item returned is dropped.
__log_message_discarded(can, res) ==
  IF can
  THEN [invoke |-> TRUE, ret |-> RetNone, events |-> <<"can_log_item", "log_item">>]
  ELSE [invoke |-> FALSE, ret |-> RetNone, events |-> <<"can_log_item">>]

__log_message(can, res) ==
  IF can
  THEN [invoke |-> TRUE, ret |-> RetSome(res), events |-> <<"can_log_item", "log_item">>]
  ELSE [invoke |-> FALSE, ret |-> RetNone, events |-> <<"can_log_item">>]

(***************************************************************************)
(* std::sync::Mutex around DEFAULT_LOGGER (lib.rs 27-34).                  *)
(***************************************************************************)
Mutex_new == [holder |-> None, poisoned |-> FALSE]
\* Variant: the guard is not kept for the duration of the call.
Mutex_lock_released(m, t) == m
Mutex_lock(m, t) == [m EXCEPT !.holder = Some(t)]

\* Variant: the guard is not dropped when the operation returns.
Mutex_unlock_kept(m) == m
Mutex_unlock(m) == [m EXCEPT !.holder = None]
\* The guard is dropped while its thread is panicking.
\* Variant: a guard dropped during a panic leaves the mutex clean.
Mutex_unlock_panicking_clean(m) == [holder |-> None, poisoned |-> FALSE]

Mutex_unlock_panicking(m) == [holder |-> None, poisoned |-> TRUE]

(***************************************************************************)
(* The inputs the operations are called with.                              *)
(***************************************************************************)
MaxPartial == 1
ClockMax == 1

Paths == {"a.log", "b.log"}

\* Local::now() at clock reading c.
Time(c) == [h |-> 9, m |-> 5, s |-> 7 + c]
FrozenTime == [h |-> 20, m |-> 52, s |-> 37]

Messages == {<<"h","i">>}
SeqMessages == {<<>>, <<"h","i">>}
CallLevels == {"Error", "Information"}
SliceLevels == {"Error", "Warning"}

RECURSIVE SeqsUpTo(_, _)
SeqsUpTo(S, n) ==
  IF n = 0 THEN {<<>>}
  ELSE SeqsUpTo(S, n - 1)
       \cup {Append(q, x) : q \in {r \in SeqsUpTo(S, n - 1) : Len(r) = n - 1}, x \in S}

Slices == {<<"Error">>}
SeqSlices == SeqsUpTo(SliceLevels, MaxSlice)

\* default_format!() at a call site, and the empty template.
CallSiteFormat == default_format(0, 12, <<"m">>, <<"f">>)
RecordFormats == {CallSiteFormat, Format_new}

\* The override of the tests (frozen time, line and column), and one with
\* no tokens of its own.
TestOverride ==
  set_constant_time(set_line(set_column(Format_default, 0), 12), FrozenTime)
FieldOverride == set_module_path(set_line(Format_new, 7), <<"o">>)
Overrides == {TestOverride}
SeqOverrides == {TestOverride, FieldOverride}

(***************************************************************************)
(* State.                                                                  *)
(***************************************************************************)
VARIABLES
  logger,   \* DEFAULT_LOGGER's FileLogger
  lock,     \* DEFAULT_LOGGER's Mutex
  fs,       \* the bytes of each file
  clock,    \* the reading of Local::now()
  pc,       \* where each thread is inside a default log call
  cur,      \* the locals of each thread's log call in progress
  last,     \* the operation that completed last, its arguments and result
  logged,   \* per path, the calls log_item rendered a text for, in call order
  comp,     \* per path, what a String Sink returned for the same records
  ioFailed, \* per path, whether a write or flush on it failed
  live,     \* per path, whether a text for it read the live clock
  ops,      \* operations started
  fails,    \* I/O failures injected
  fmt       \* two templates under construction and their merge

sys == <<logger, lock, fs, clock, pc, cur, last, logged, comp, ioFailed,
         live, ops, fails>>

vars == <<sys, fmt>>

NoItem == LogItem_new(Format_new, "Error", <<>>)

Idle ==
  [item |-> NoItem, events |-> <<>>, path |-> NoPath, text |-> <<>>,
   written |-> <<>>, ovr |-> None, now |-> 0, failed |-> FALSE]

\* The String Sink call before the last one, when the two are consecutive.
NoPrev == [op |-> "-", item |-> NoItem, ovr |-> None, ret |-> NoRet, now |-> 0]

NoLast ==
  [seq |-> 0, op |-> "-", item |-> NoItem, levels |-> <<>>, prev |-> NoPrev,
   path |-> NoPath, can |-> FALSE, events |-> <<>>, written |-> <<>>,
   ret |-> NoRet, lockErr |-> FALSE, panicked |-> FALSE, handle |-> None,
   ovr |-> None, text |-> <<>>, now |-> 0, failed |-> FALSE, was |-> <<>>]

Completed(t, op) == [NoLast EXCEPT !.seq = last.seq + 1, !.op = op]

Now == Time(clock)

\* A text reads the live clock when its template has a TimeString token
\* and no frozen timestamp.
reads_clock(f) ==
  is_none(f.custom_time) /\ \E i \in 1..Len(f.items) : f.items[i].tag = "TimeString"

effective_format(ovr, item) ==
  IF is_some(ovr) THEN merged(unwrap(ovr), item.format) ELSE item.format

NoFmt == [a |-> Format_new, b |-> Format_new, m |-> None, r |-> None, u |-> None]

Init ==
  /\ fmt = NoFmt
  /\ logger = FileLogger_new
  /\ lock = Mutex_new
  /\ fs = [p \in Paths |-> <<>>]
  /\ clock = 0
  /\ pc = [t \in Threads |-> "idle"]
  /\ cur = [t \in Threads |-> Idle]
  /\ last = NoLast
  /\ logged = [p \in Paths |-> <<>>]
  /\ comp = [p \in Paths |-> <<>>]
  /\ ioFailed = [p \in Paths |-> FALSE]
  /\ live = [p \in Paths |-> FALSE]
  /\ ops = 0
  /\ fails = 0

CanStart(t) == pc[t] = "idle" /\ is_none(lock.holder) /\ ops < MaxOps

Tick ==
  /\ clock < ClockMax
  /\ UNCHANGED fmt
  /\ clock' = clock + 1
  /\ UNCHANGED <<logger, lock, fs, pc, cur, last, logged, comp, ioFailed, live, ops, fails>>

(***************************************************************************)
(* lib.rs: the wrappers of the default sink.  Each locks, acts and drops   *)
(* the guard; on a poisoned mutex lock() is an Err that `?` returns.       *)
(***************************************************************************)
PoisonError == "PoisonError"
IoError == "io::Error"

\* What a caller gets when lock() is an Err: `.map_err(|e| e.to_string())?`
\* in the lib.rs wrappers, `else { return None }` in __default_log_message.
\* Variant: the wrappers drop the error of lock().
LockFailed_dropped(op) == IF op = "log" THEN RetNone ELSE RetOk
LockFailed(op) == IF op = "log" THEN RetNone ELSE RetErr(PoisonError)

set_output_file(t, path, opened) ==
  /\ CanStart(t)
  /\ UNCHANGED fmt
  /\ IF lock.poisoned
     THEN /\ last' = [Completed(t, "set_output_file") EXCEPT
                        !.path = path, !.lockErr = TRUE,
                        !.ret = LockFailed("set_output_file"),
                        !.handle = logger.file]
          /\ UNCHANGED logger
     ELSE /\ logger' = open_file(logger, path, opened)
          /\ last' = [Completed(t, "set_output_file") EXCEPT
                        !.path = path, !.handle = logger.file, !.failed = ~opened,
                        !.ret = IF opened THEN RetOk ELSE RetErr(IoError)]
  /\ ops' = ops + 1
  /\ UNCHANGED <<lock, fs, clock, pc, cur, logged, comp, ioFailed, live, fails>>

\* Variant: the handle is dropped without waiting for the mutex.
close_output_file_unlocked(t) ==
  /\ pc[t] = "idle"
  /\ ops < MaxOps
  /\ UNCHANGED fmt
  /\ logger' = close_file(logger)
  /\ last' = [Completed(t, "close_output_file") EXCEPT
                !.handle = logger.file, !.ret = RetOk]
  /\ ops' = ops + 1
  /\ UNCHANGED <<lock, fs, clock, pc, cur, logged, comp, ioFailed, live, fails>>

close_output_file(t) ==
  /\ CanStart(t)
  /\ UNCHANGED fmt
  /\ IF lock.poisoned
     THEN /\ last' = [Completed(t, "close_output_file") EXCEPT
                        !.lockErr = TRUE, !.ret = LockFailed("close_output_file"),
                        !.handle = logger.file]
          /\ UNCHANGED logger
     ELSE /\ logger' = close_file(logger)
          /\ last' = [Completed(t, "close_output_file") EXCEPT
                        !.handle = logger.file, !.ret = RetOk]
  /\ ops' = ops + 1
  /\ UNCHANGED <<lock, fs, clock, pc, cur, logged, comp, ioFailed, live, fails>>

restrict_log_levels(t, prohibited_levels) ==
  /\ CanStart(t)
  /\ UNCHANGED fmt
  /\ IF lock.poisoned
     THEN /\ last' = [Completed(t, "restrict_log_levels") EXCEPT
                        !.levels = prohibited_levels, !.lockErr = TRUE,
                        !.was = logger.restricted_log_levels,
                        !.ret = LockFailed("restrict_log_levels")]
          /\ UNCHANGED logger
     ELSE /\ logger' = FileLogger_restrict_log_levels(logger, prohibited_levels)
          /\ last' = [Completed(t, "restrict_log_levels") EXCEPT
                        !.levels = prohibited_levels,
                        !.was = logger.restricted_log_levels, !.ret = RetOk]
  /\ ops' = ops + 1
  /\ UNCHANGED <<lock, fs, clock, pc, cur, logged, comp, ioFailed, live, fails>>

allow_log_levels(t, allowed_log_levels) ==
  /\ CanStart(t)
  /\ UNCHANGED fmt
  /\ IF lock.poisoned
     THEN /\ last' = [Completed(t, "allow_log_levels") EXCEPT
                        !.levels = allowed_log_levels, !.lockErr = TRUE,
                        !.was = logger.restricted_log_levels,
                        !.ret = LockFailed("allow_log_levels")]
          /\ UNCHANGED logger
     ELSE /\ logger' = FileLogger_allow_log_levels(logger, allowed_log_levels)
          /\ last' = [Completed(t, "allow_log_levels") EXCEPT
                        !.levels = allowed_log_levels,
                        !.was = logger.restricted_log_levels, !.ret = RetOk]
  /\ ops' = ops + 1
  /\ UNCHANGED <<lock, fs, clock, pc, cur, logged, comp, ioFailed, live, fails>>

(***************************************************************************)
(* DEFAULT_LOGGER.lock().unwrap().set_override(..) and                     *)
(* .set_panic_on_fail(..), as the tests configure the default sink.        *)
(***************************************************************************)
default_set_override(t, override_format) ==
  /\ CanStart(t)
  /\ UNCHANGED fmt
  /\ ~lock.poisoned
  /\ logger' = FileLogger_set_override(logger, override_format)
  /\ last' = [Completed(t, "set_override") EXCEPT !.ovr = Some(override_format)]
  /\ ops' = ops + 1
  /\ UNCHANGED <<lock, fs, clock, pc, cur, logged, comp, ioFailed, live, fails>>

default_set_panic_on_fail(t, b) ==
  /\ CanStart(t)
  /\ UNCHANGED fmt
  /\ ~lock.poisoned
  /\ logger' = set_panic_on_fail(logger, b)
  /\ last' = Completed(t, "set_panic_on_fail")
  /\ ops' = ops + 1
  /\ UNCHANGED <<lock, fs, clock, pc, cur, logged, comp, ioFailed, live, fails>>

(***************************************************************************)
(* macros.rs: __default_log_message, with __log_message and the entry of   *)
(* FileLogger::log_item.  A poisoned mutex makes the call return None.     *)
(* With a handle the call keeps the guard and goes on to write.            *)
(***************************************************************************)
\* Variant: the failed result is dropped and the call returns.
Panic_returns(t) ==
  /\ lock' = Mutex_unlock(lock)
  /\ pc' = [pc EXCEPT ![t] = "idle"]
  /\ cur' = [cur EXCEPT ![t] = Idle]

\* res.unwrap() on an Err: the thread unwinds and the guard it holds is
\* dropped while panicking, which poisons the mutex.
Panic(t) ==
  /\ lock' = Mutex_unlock_panicking(lock)
  /\ pc' = [pc EXCEPT ![t] = "panicked"]
  /\ cur' = [cur EXCEPT ![t] = Idle]

__default_log_message(t, log_level, message, format) ==
  /\ CanStart(t)
  /\ UNCHANGED fmt
  /\ ops' = ops + 1
  /\ UNCHANGED <<logger, fs, clock, comp, ioFailed, fails>>
  /\ IF lock.poisoned
     THEN /\ last' = [Completed(t, "log") EXCEPT
                        !.item = LogItem_new(format, log_level, message),
                        !.lockErr = TRUE, !.ret = LockFailed("log"),
                        !.handle = logger.file]
          /\ UNCHANGED <<lock, pc, cur, logged, live>>
     ELSE LET item == LogItem_new(format, log_level, message)
              can == FileLogger_can_log_item(logger, item)
              d == __log_message(can, Unit)
              step == FileLogger_log_item(logger, item, Now)
              done == [Completed(t, "log") EXCEPT
                         !.item = item, !.can = can, !.events = d.events,
                         !.ret = d.ret, !.handle = logger.file,
                         !.ovr = logger.override_format, !.now = clock]
          IN  IF ~d.invoke
              THEN /\ last' = done
                   /\ UNCHANGED <<lock, pc, cur, logged, live>>
              ELSE IF step.panics
              THEN /\ Panic(t)
                   /\ last' = [done EXCEPT !.panicked = TRUE, !.ret = NoRet]
                   /\ UNCHANGED <<logged, live>>
              ELSE IF ~step.writes
              THEN /\ last' = done
                   /\ UNCHANGED <<lock, pc, cur, logged, live>>
              ELSE /\ lock' = Mutex_lock(lock, t)
                   /\ pc' = [pc EXCEPT ![t] = "write"]
                   /\ cur' = [cur EXCEPT ![t] =
                                [Idle EXCEPT !.item = item, !.events = d.events,
                                   !.path = step.path, !.text = step.text,
                                   !.ovr = logger.override_format, !.now = clock]]
                   /\ logged' = [logged EXCEPT ![step.path] =
                                   Append(@, [thread |-> t, text |-> step.text])]
                   /\ live' = [live EXCEPT ![step.path] =
                                 @ \/ reads_clock(effective_format(logger.override_format, item))]
                   /\ UNCHANGED last

(***************************************************************************)
(* FileLogger::log_item, logger.rs 162-173: writeln! writes the text and   *)
(* then the newline with write_all, then the file is flushed.  A failing   *)
(* write_all may have written a strict prefix.  Each result is unwrapped   *)
(* when panic_on_fail is set and dropped otherwise.                        *)
(***************************************************************************)
Failure(t, p) ==
  /\ fails < MaxFail
  /\ fails' = fails + 1
  /\ ioFailed' = [ioFailed EXCEPT ![p] = TRUE]

PanicInLogItem(t) ==
  /\ Panic(t)
  /\ last' = [Completed(t, "log") EXCEPT
                !.item = cur[t].item, !.can = TRUE, !.events = cur[t].events,
                !.handle = Some(cur[t].path), !.ovr = cur[t].ovr,
                !.text = cur[t].text, !.now = cur[t].now,
                !.panicked = TRUE, !.failed = TRUE]

write_text(t, ok, k) ==
  /\ pc[t] = "write"
  /\ UNCHANGED fmt
  /\ UNCHANGED <<logger, clock, logged, comp, live, ops>>
  /\ LET p == cur[t].path
         text == cur[t].text
     IN IF ok
        THEN /\ k = 0
             /\ fs' = [fs EXCEPT ![p] = @ \o text]
             /\ pc' = [pc EXCEPT ![t] = "newline"]
             /\ cur' = [cur EXCEPT ![t].written = @ \o text]
             /\ UNCHANGED <<lock, last, ioFailed, fails>>
        ELSE /\ k < Len(text)
             /\ Failure(t, p)
             /\ fs' = [fs EXCEPT ![p] = @ \o SubSeq(text, 1, k)]
             /\ IF logger.panic_on_fail
                THEN PanicInLogItem(t)
                ELSE /\ pc' = [pc EXCEPT ![t] = "flush"]
                     /\ cur' = [cur EXCEPT ![t].written = @ \o SubSeq(text, 1, k),
                                           ![t].failed = TRUE]
                     /\ UNCHANGED <<lock, last>>

write_newline(t, ok) ==
  /\ pc[t] = "newline"
  /\ UNCHANGED fmt
  /\ UNCHANGED <<logger, clock, logged, comp, live, ops>>
  /\ LET p == cur[t].path
     IN IF ok
        THEN /\ fs' = [fs EXCEPT ![p] = Append(@, NL)]
             /\ pc' = [pc EXCEPT ![t] = "flush"]
             /\ cur' = [cur EXCEPT ![t].written = Append(@, NL)]
             /\ UNCHANGED <<lock, last, ioFailed, fails>>
        ELSE /\ Failure(t, p)
             /\ UNCHANGED fs
             /\ IF logger.panic_on_fail
                THEN PanicInLogItem(t)
                ELSE /\ pc' = [pc EXCEPT ![t] = "flush"]
                     /\ cur' = [cur EXCEPT ![t].failed = TRUE]
                     /\ UNCHANGED <<lock, last>>

\* The flush, the return of log_item and of __log_message, and the drop of
\* the guard.  comp receives what a String Sink with the same override
\* returns for the same record, called now.
flush(t, ok) ==
  /\ pc[t] = "flush"
  /\ UNCHANGED fmt
  /\ UNCHANGED <<logger, clock, fs, logged, live, ops>>
  /\ LET p == cur[t].path
         returns ==
           /\ lock' = Mutex_unlock(lock)
           /\ pc' = [pc EXCEPT ![t] = "idle"]
           /\ last' = [Completed(t, "log") EXCEPT
                         !.item = cur[t].item, !.can = TRUE,
                         !.events = cur[t].events, !.written = cur[t].written,
                         !.ret = __log_message(TRUE, Unit).ret,
                         !.handle = Some(p), !.ovr = cur[t].ovr,
                         !.text = cur[t].text, !.now = cur[t].now,
                         !.failed = cur[t].failed \/ ~ok]
           /\ comp' = [comp EXCEPT ![p] =
                         @ \o StringLogger_log_item([override_format |-> cur[t].ovr],
                                                    cur[t].item, Now) \o <<NL>>]
           /\ cur' = [cur EXCEPT ![t] = Idle]
     IN IF ok
        THEN /\ returns
             /\ UNCHANGED <<ioFailed, fails>>
        ELSE /\ Failure(t, p)
             /\ IF logger.panic_on_fail
                THEN PanicInLogItem(t) /\ UNCHANGED comp
                ELSE returns

(***************************************************************************)
(* macros.rs: __log_message on a StringLogger the caller owns.             *)
(***************************************************************************)
string_log_message(t, log_level, message, format, ovr) ==
  /\ pc[t] = "idle"
  /\ UNCHANGED fmt
  /\ ops < MaxOps
  /\ ops' = ops + 1
  /\ LET item == LogItem_new(format, log_level, message)
         s == [override_format |-> ovr]
         d == __log_message(Logger_can_log_item(item), StringLogger_log_item(s, item, Now))
     IN last' = [Completed(t, "string_log") EXCEPT
                   !.item = item, !.can = Logger_can_log_item(item),
                   !.events = d.events, !.ret = d.ret, !.ovr = ovr,
                   !.text = d.ret.val, !.now = clock,
                   !.prev = IF last.op = "string_log"
                            THEN [op |-> last.op, item |-> last.item,
                                  ovr |-> last.ovr, ret |-> last.ret,
                                  now |-> last.now]
                            ELSE NoPrev]
  /\ UNCHANGED <<logger, lock, fs, clock, pc, cur, logged, comp, ioFailed, live, fails>>

(***************************************************************************)
(* Spec: threads sharing the default sink, with failing writes, failing    *)
(* opens and a running clock.                                              *)
(***************************************************************************)
Next ==
  \/ Tick
  \/ \E t \in Threads, p \in Paths, opened \in BOOLEAN : set_output_file(t, p, opened)
  \/ \E t \in Threads : close_output_file(t)
  \/ \E t \in Threads, ls \in Slices : restrict_log_levels(t, ls)
  \/ \E t \in Threads, ls \in Slices : allow_log_levels(t, ls)
  \/ \E t \in Threads, o \in Overrides : default_set_override(t, o)
  \/ \E t \in Threads, b \in BOOLEAN : default_set_panic_on_fail(t, b)
  \/ \E t \in Threads, l \in CallLevels, m \in Messages, f \in RecordFormats :
       __default_log_message(t, l, m, f)
  \/ \E t \in Threads, ok \in BOOLEAN, k \in 0..MaxPartial : write_text(t, ok, k)
  \/ \E t \in Threads, ok \in BOOLEAN : write_newline(t, ok)
  \/ \E t \in Threads, ok \in BOOLEAN : flush(t, ok)

Spec == Init /\ [][Next]_vars

(***************************************************************************)
(* SpecSeq: one thread using the default sink and a String Sink of its     *)
(* own, no I/O failure, with more levels, slices, messages and overrides.  *)
(***************************************************************************)
NextSeq ==
  \/ Tick
  \/ \E opened \in BOOLEAN : set_output_file(1, "a.log", opened)
  \/ close_output_file(1)
  \/ \E ls \in SeqSlices : restrict_log_levels(1, ls)
  \/ \E ls \in SeqSlices : allow_log_levels(1, ls)
  \/ \E o \in SeqOverrides : default_set_override(1, o)
  \/ \E l \in CallLevels, m \in SeqMessages, f \in RecordFormats :
       __default_log_message(1, l, m, f)
  \/ write_text(1, TRUE, 0)
  \/ write_newline(1, TRUE)
  \/ flush(1, TRUE)
  \/ \E l \in CallLevels, m \in SeqMessages, f \in RecordFormats,
        o \in {None} \cup {Some(x) : x \in SeqOverrides} :
       string_log_message(1, l, m, f, o)

SpecSeq == Init /\ [][NextSeq]_vars

(***************************************************************************)
(* SpecFmt: two templates built with the builder methods of Format, a     *)
(* preferred one (a) and a fallback (b), and merged.  The two sides draw   *)
(* different values, so that a merged field tells which side it is from.   *)
(***************************************************************************)
SideValues ==
  [a |-> [column |-> 1, line |-> 12, file |-> <<"f">>, module_path |-> <<"m">>,
          time |-> FrozenTime,
          items |-> {FormatItem_LogString, FormatItem_TimeString(<<"%","S">>)}],
   b |-> [column |-> 0, line |-> 345, file |-> <<"g">>, module_path |-> <<"n">>,
          time |-> Time(0),
          items |-> {FormatItem_LogLevel}]]

Build(side, f) ==
  /\ fmt' = [fmt EXCEPT ![side] = f, !.m = None, !.r = None, !.u = None]
  /\ UNCHANGED sys

FmtSetColumn(side) == Build(side, set_column(fmt[side], SideValues[side].column))
FmtSetLine(side) == Build(side, set_line(fmt[side], SideValues[side].line))
FmtSetFile(side) == Build(side, set_file(fmt[side], SideValues[side].file))
FmtSetModulePath(side) ==
  Build(side, set_module_path(fmt[side], SideValues[side].module_path))
FmtSetConstantTime(side) ==
  Build(side, set_constant_time(fmt[side], SideValues[side].time))
FmtClearConstantTime(side) == Build(side, clear_constant_time(fmt[side]))

FmtAppend(side, item) ==
  /\ Len(fmt[side].items) < MaxItems
  /\ Build(side, append(fmt[side], item))

FmtPopLast(side) == Build(side, pop_last(fmt[side]))

\* template.append(item).pop_last(), on a copy of the template of a side.
FmtAppendPopLast(side, item) ==
  /\ fmt' = [fmt EXCEPT !.u =
               Some([side |-> side, item |-> item,
                     out |-> pop_last(append(fmt[side], item))])]
  /\ UNCHANGED sys

FmtMerged ==
  /\ fmt' = [fmt EXCEPT !.m = Some(merged(fmt.a, fmt.b))]
  /\ UNCHANGED sys

Sides == {"a", "b"}

NextFmt ==
  \/ \E side \in Sides : FmtSetColumn(side)
  \/ \E side \in Sides : FmtSetLine(side)
  \/ \E side \in Sides : FmtSetFile(side)
  \/ \E side \in Sides : FmtSetModulePath(side)
  \/ \E side \in Sides : FmtSetConstantTime(side)
  \/ \E side \in Sides : FmtClearConstantTime(side)
  \/ \E side \in Sides : \E item \in SideValues[side].items : FmtAppend(side, item)
  \/ \E side \in Sides : FmtPopLast(side)
  \/ \E side \in Sides : \E item \in SideValues[side].items :
       FmtAppendPopLast(side, item)
  \/ FmtMerged

SpecFmt == Init /\ [][NextFmt]_vars

(***************************************************************************)
(* SpecRender: a template built from every kind of token and every field,  *)
(* or taken from Format::default(), and a second one with a column of 0    *)
(* and a line of three digits, each rendered with build_string.            *)
(***************************************************************************)
RenderItems ==
  {FormatItem_LineNumber, FormatItem_ColumnNumber, FormatItem_ModulePath,
   FormatItem_File, FormatItem_LogLevel, FormatItem_LogString,
   FormatItem_TimeString(<<"%","k",":","%","M">>),
   FormatItem_CustomCharacter("["), FormatItem_CustomString(<<")"," ">>)}

NumberItems == {FormatItem_LineNumber, FormatItem_ColumnNumber}

FmtBuildString(side, log_level, log_message) ==
  /\ fmt' = [fmt EXCEPT !.r =
               Some([side |-> side, level |-> log_level, message |-> log_message,
                     out |-> build_string(fmt[side], log_level, log_message, Now)])]
  /\ UNCHANGED sys

FmtDefault(side) == Build(side, Format_default)

NextRender ==
  \/ FmtDefault("a")
  \/ \E side \in Sides : FmtSetColumn(side)
  \/ \E side \in Sides : FmtSetLine(side)
  \/ FmtSetFile("a")
  \/ FmtSetModulePath("a")
  \/ FmtSetConstantTime("a")
  \/ FmtClearConstantTime("a")
  \/ \E item \in RenderItems : FmtAppend("a", item)
  \/ \E item \in NumberItems : FmtAppend("b", item)
  \/ \E side \in Sides : FmtPopLast(side)
  \/ \E l \in LogLevel, m \in SeqMessages : FmtBuildString("a", l, m)
  \/ \E m \in Messages : FmtBuildString("b", "Error", m)

SpecRender == Init /\ [][NextRender]_vars

(***************************************************************************)
(* Properties.                                                             *)
(***************************************************************************)
Dispatched ==
  last.op \in {"log", "string_log"} /\ ~last.lockErr /\ ~last.panicked

\* C1: __log_message calls can_log_item first; when it answers false the
\* call returns None, log_item is not invoked and nothing is written; when
\* it answers true log_item is invoked exactly once and the call returns
\* Some of what log_item returned.  For the File Sink and the String Sink.
C1_DispatchProtocol ==
  Dispatched =>
    /\ Len(last.events) >= 1
    /\ last.events[1] = "can_log_item"
    /\ last.can = (IF last.op = "log"
                   THEN ~contains(logger.restricted_log_levels, last.item.level)
                   ELSE TRUE)
    /\ ~last.can =>
         /\ last.ret = RetNone
         /\ last.events = <<"can_log_item">>
         /\ last.written = <<>>
    /\ last.can =>
         /\ last.events = <<"can_log_item", "log_item">>
         /\ last.ret.kind = "Some"
         /\ last.ret.val =
              (IF last.op = "string_log"
               THEN StringLogger_log_item([override_format |-> last.ovr],
                                          last.item, Time(last.now))
               ELSE Unit)

\* C1 witness: a call on the File Sink, with the file open, that the
\* deny-list suppressed.
C1_Witness ==
  /\ Dispatched
  /\ last.op = "log"
  /\ ~last.can
  /\ is_some(last.handle)
  /\ last.ret = RetNone

\* No log call is between its first write and its return on path p.
Quiet(p) == \A t \in Threads : pc[t] \in {"idle", "panicked"} \/ cur[t].path # p

\* The lines of a file: the newline-terminated ones, and what follows the
\* last newline.
RECURSIVE SplitLines(_, _, _)
SplitLines(bytes, done, partial) ==
  IF Len(bytes) = 0 THEN [full |-> done, rest |-> partial]
  ELSE IF bytes[1] = NL
       THEN SplitLines(Tail(bytes), Append(done, partial), <<>>)
       ELSE SplitLines(Tail(bytes), done, Append(partial, bytes[1]))

Lines(p) == SplitLines(fs[p], <<>>, <<>>)

IsPermutationOf(lines, calls) ==
  /\ Len(lines) = Len(calls)
  /\ \E f \in Permutations(1..Len(calls)) :
       \A i \in 1..Len(calls) : lines[i] = calls[f[i]].text

\* C2: once the log calls of all threads on a file have returned, and no
\* write on it failed, the file holds exactly one line per call that
\* reached log_item while the file was open: each line is the complete
\* text of one call followed by a newline, the lines are a permutation of
\* the calls, and no line mixes two calls.
C2_LinesAtomic ==
  \A p \in Paths :
    (Quiet(p) /\ ~ioFailed[p]) =>
      /\ Lines(p).rest = <<>>
      /\ IsPermutationOf(Lines(p).full, logged[p])

\* C2 witness: two threads have each logged one record to the same file,
\* with different texts, and both calls have returned.
C2_Witness ==
  \E p \in Paths :
    /\ \A t \in Threads : pc[t] = "idle"
    /\ ~ioFailed[p]
    /\ Len(logged[p]) = 2
    /\ logged[p][1].thread # logged[p][2].thread
    /\ logged[p][1].text # logged[p][2].text
    /\ Len(Lines(p).full) = 2

\* C3 as stated: after any sequence of records logged to a file (every
\* write succeeding), its content is the concatenation, in call order, of
\* what a String Sink with the same override returns for each record, each
\* followed by a newline.
C3_AsStated ==
  \A p \in Paths : (Quiet(p) /\ ~ioFailed[p]) => fs[p] = comp[p]

\* C3 amended: the same, for records that are all rendered without
\* reading the live clock (a frozen timestamp in the override or the
\* record, or no TimeString token).
C3_FileEqualsStringSink ==
  \A p \in Paths : (Quiet(p) /\ ~ioFailed[p] /\ ~live[p]) => fs[p] = comp[p]

\* C3 witness: one thread has logged two records with a frozen override
\* to one file, the calls have returned and the file holds both lines.
C3_Witness ==
  \E p \in Paths :
    /\ \A t \in Threads : pc[t] = "idle"
    /\ ~ioFailed[p] /\ ~live[p]
    /\ is_some(logger.override_format)
    /\ Len(logged[p]) = 2
    /\ logged[p][1].thread = logged[p][2].thread
    /\ Len(logged[p][1].text) > 0
    /\ Len(Lines(p).full) = 2

LogItemWithoutHandle ==
  /\ last'.seq # last.seq
  /\ last'.op = "log"
  /\ ~last'.lockErr
  /\ last'.can
  /\ is_none(logger.file)

\* C10: log_item on a File Sink without a handle writes nothing, does not
\* panic whatever panic_on_fail is, and leaves the sink unchanged.
C10_NoHandleNoOp ==
  [][LogItemWithoutHandle =>
       /\ fs' = fs
       /\ logger' = logger
       /\ lock' = lock
       /\ pc' = pc
       /\ ~last'.panicked
       /\ last'.written = <<>>
       /\ last'.ret = RetSome(Unit)]_vars

\* C10 witness: a log call reached log_item with no handle held and
\* panic_on_fail set.
C10_Witness ==
  /\ last.op = "log"
  /\ ~last.lockErr
  /\ last.can
  /\ is_none(last.handle)
  /\ logger.panic_on_fail
  /\ last.ret = RetSome(Unit)

\* The last operation invoked log_item, on a File Sink that held a handle
\* or on a String Sink.
LogItemRendered ==
  /\ Dispatched
  /\ last.can
  /\ last.op = "log" => is_some(last.handle)

\* render(merged(O, T), severity, message) under an override O, and
\* render(T, severity, message) without one.
RenderedAsSpecified ==
  IF is_some(last.ovr)
  THEN build_string(merged(unwrap(last.ovr), last.item.format),
                    last.item.level, last.item.message, Time(last.now))
  ELSE build_string(last.item.format, last.item.level, last.item.message,
                    Time(last.now))

\* C5: the text log_item produces, written to the file by the File Sink
\* and returned by the String Sink, is render(merged(O, T), severity,
\* message) when the sink has an override O and render(T, severity,
\* message) when it has none.
C5_OverridePreferred ==
  LogItemRendered =>
    /\ last.op = "string_log" => last.ret.val = RenderedAsSpecified
    /\ last.op = "log" =>
         /\ last.text = RenderedAsSpecified
         /\ last.written = RenderedAsSpecified \o <<NL>>

\* C5 witness: the File Sink wrote a record of a call site under an
\* override that sets a line and a module path and has no tokens.
C5_Witness ==
  /\ LogItemRendered
  /\ last.op = "log"
  /\ last.ovr = Some(FieldOverride)
  /\ last.item.format = CallSiteFormat
  /\ Len(last.written) > 1

Fields == {"column", "line", "file", "module_path", "custom_time"}

\* C6: each of column, line, file, module path and frozen timestamp of
\* merged(A, B) is A's value when A defines it, else B's value when B
\* defines it, else absent, whatever the other fields are.
C6_MergedLeftBiased ==
  is_some(fmt.m) =>
    \A f \in Fields :
      unwrap(fmt.m)[f] =
        (IF is_some(fmt.a[f]) THEN fmt.a[f]
         ELSE IF is_some(fmt.b[f]) THEN fmt.b[f]
         ELSE None)

\* C6 witness: A defines the column and not the line, B defines both, and
\* the merge took the column of A and the line of B.
C6_Witness ==
  /\ is_some(fmt.m)
  /\ is_some(fmt.a.column) /\ is_none(fmt.a.line)
  /\ is_some(fmt.b.column) /\ is_some(fmt.b.line)
  /\ fmt.a.column # fmt.b.column
  /\ unwrap(fmt.m).column = fmt.a.column
  /\ unwrap(fmt.m).line = fmt.b.line

\* C7: the tokens of merged(A, B) are A's sequence when it is not empty
\* and B's sequence when A's is empty, never a combination of both.
C7_TokensAllOrNothing ==
  is_some(fmt.m) =>
    /\ Len(fmt.a.items) > 0 => unwrap(fmt.m).items = fmt.a.items
    /\ Len(fmt.a.items) = 0 => unwrap(fmt.m).items = fmt.b.items
    /\ unwrap(fmt.m).items \in {fmt.a.items, fmt.b.items}

\* C7 witness: A has one token, B has two others, the merge has A's.
C7_Witness ==
  /\ is_some(fmt.m)
  /\ Len(fmt.a.items) = 1
  /\ Len(fmt.b.items) = 2
  /\ unwrap(fmt.m).items = fmt.a.items

LevelItem(level) == LogItem_new(Format_new, level, <<>>)

\* C8: in every reachable sink state, restrict_log_levels([X]) followed by
\* allow_log_levels([X]) leaves X emittable, whether or not X was on the
\* deny-list; and right after an allow_log_levels([X]) on the default
\* sink a record of severity X passes can_log_item.
C8_RestrictThenAllow ==
  /\ \A X \in LogLevel :
       FileLogger_can_log_item(
         FileLogger_allow_log_levels(
           FileLogger_restrict_log_levels(logger, <<X>>), <<X>>),
         LevelItem(X))
  /\ (last.op = "allow_log_levels" /\ ~last.lockErr /\ Len(last.levels) = 1) =>
       FileLogger_can_log_item(logger, LevelItem(last.levels[1]))

\* C8 witness: allow_log_levels([Error]) ran on a deny-list of two levels
\* that held Error, and Error is emittable again.
C8_Witness ==
  /\ last.op = "allow_log_levels"
  /\ last.levels = <<"Error">>
  /\ Len(last.was) = 2
  /\ contains(last.was, "Error")
  /\ FileLogger_can_log_item(logger, LevelItem("Error"))

NoDuplicates(v) == \A i, j \in 1..Len(v) : i # j => v[i] # v[j]

AllIn(levels, v) == \A i \in 1..Len(levels) : contains(v, levels[i])
NoneIn(levels, v) == \A i \in 1..Len(levels) : ~contains(v, levels[i])

\* C9: the deny-list never holds a duplicate; restrict_log_levels with
\* levels all on the list and allow_log_levels with levels none of which
\* is on the list leave it unchanged and return Ok; applying either twice
\* with the same slice, repeated levels included, is as applying it once.
C9_DenyListIdempotent ==
  /\ NoDuplicates(logger.restricted_log_levels)
  /\ (last.op = "restrict_log_levels" /\ ~last.lockErr) =>
       /\ last.ret = RetOk
       /\ AllIn(last.levels, last.was) => logger.restricted_log_levels = last.was
  /\ (last.op = "allow_log_levels" /\ ~last.lockErr) =>
       /\ last.ret = RetOk
       /\ NoneIn(last.levels, last.was) => logger.restricted_log_levels = last.was
  /\ \A ls \in SeqSlices :
       /\ FileLogger_restrict_log_levels(FileLogger_restrict_log_levels(logger, ls), ls)
            = FileLogger_restrict_log_levels(logger, ls)
       /\ FileLogger_allow_log_levels(FileLogger_allow_log_levels(logger, ls), ls)
            = FileLogger_allow_log_levels(logger, ls)

\* C9 witness: restrict_log_levels([Error, Error]) ran on a deny-list
\* holding Warning and added Error once.
C9_Witness ==
  /\ last.op = "restrict_log_levels"
  /\ last.levels = <<"Error", "Error">>
  /\ last.was = <<"Warning">>
  /\ logger.restricted_log_levels = <<"Warning", "Error">>

\* The thread that is inside the write, the newline or the flush of
\* log_item, if any.
InLogItem(t) == pc[t] \in {"write", "newline", "flush"}

IsPrefix(s, u) == Len(s) <= Len(u) /\ SubSeq(u, 1, Len(s)) = s

\* C11: a failing write or flush in log_item is not retried.  Under
\* panic_on_fail = false the call goes on: a failed write is followed by
\* the flush, a failed flush by the normal return with Some(()), the mutex
\* is not poisoned, and this for a failure of the write, of the flush or
\* of both.  Under panic_on_fail = true the first failing step panics: the
\* thread does not return and no later step of the call runs.  In either
\* case the bytes written by the call are a prefix of the text and its
\* newline.
C11_FailurePolicy ==
  [][\A t \in Threads :
       (InLogItem(t) /\ fails' # fails) =>
         /\ IsPrefix(fs'[cur[t].path],
                     fs[cur[t].path] \o cur[t].text \o <<NL>>)
         /\ IF logger.panic_on_fail
            THEN /\ pc'[t] = "panicked"
                 /\ last'.seq # last.seq
                 /\ last'.panicked
                 /\ last'.ret = NoRet
            ELSE /\ pc'[t] # "panicked"
                 /\ lock'.poisoned = lock.poisoned
                 /\ pc[t] \in {"write", "newline"} =>
                      /\ pc'[t] = "flush"
                      /\ last' = last
                      /\ IsPrefix(cur'[t].written, cur[t].text \o <<NL>>)
                 /\ pc[t] = "flush" =>
                      /\ pc'[t] = "idle"
                      /\ is_none(lock'.holder)
                      /\ last'.op = "log"
                      /\ last'.failed
                      /\ ~last'.panicked
                      /\ last'.ret = RetSome(Unit)
                      /\ IsPrefix(last'.written, last'.text \o <<NL>>)]_vars

\* C11 witness: under the default policy the write of the text and the
\* flush both failed in the one log call made, which returned Some(()).
C11_Witness ==
  /\ last.op = "log"
  /\ last.seq = 2
  /\ fails = 2
  /\ last.failed
  /\ ~last.panicked
  /\ ~logger.panic_on_fail
  /\ last.ret = RetSome(Unit)
  /\ Len(last.written) < Len(last.text)

\* C12: an operation on the default sink holds the mutex for that one
\* operation.  At most one thread is inside an operation; the mutex is
\* held by the thread that is inside one and free when none is; an
\* operation starts only with the mutex free and nobody inside, and when
\* one completes the mutex is free again, so that the next operation may
\* be any thread's.
C12_LockPerOperation ==
  /\ [](/\ Cardinality({t \in Threads : InLogItem(t)}) <= 1
        /\ \A t \in Threads : InLogItem(t) <=> lock.holder = Some(t))
  /\ [][/\ ops' # ops =>
             /\ is_none(lock.holder)
             /\ \A t \in Threads : ~InLogItem(t)
        /\ last'.seq # last.seq =>
             /\ is_none(lock'.holder)
             /\ \A t \in Threads : ~InLogItem(t)'
        /\ logger' # logger => \A t \in Threads : ~InLogItem(t)]_vars

\* C12 witness: on one file, a log call of thread 2 lies between two log
\* calls of thread 1, and all three have returned.
C12_Witness ==
  \E p \in Paths :
    /\ \A t \in Threads : pc[t] = "idle"
    /\ is_none(lock.holder)
    /\ Len(logged[p]) = 3
    /\ logged[p][1].thread = 1
    /\ logged[p][2].thread = 2
    /\ logged[p][3].thread = 1
    /\ Len(Lines(p).full) = 3

\* The decimal strings of the line and column numbers the templates use.
DecimalString(n) ==
  CASE n = 0 -> <<"0">>
    [] n = 1 -> <<"1">>
    [] n = 12 -> <<"1","2">>
    [] n = 345 -> <<"3","4","5">>

SeverityName(level) ==
  CASE level = "Error" -> <<"E","r","r","o","r">>
    [] level = "Warning" -> <<"W","a","r","n","i","n","g">>
    [] level = "StateChange" -> <<"S","t","a","t","e","C","h","a","n","g","e">>
    [] level = "Information" -> <<"I","n","f","o","r","m","a","t","i","o","n">>

\* 20:52:37 under the patterns %k:%M and %k:%M:%S.
FrozenTimeString(pattern) ==
  CASE pattern = <<"%","k",":","%","M">> -> <<"2","0",":","5","2">>
    [] pattern = <<"%","k",":","%","M",":","%","S">> ->
         <<"2","0",":","5","2",":","3","7">>

\* The string the specification gives for one token of template f.
TokenString(f, item, level, message) ==
  CASE item.tag = "LineNumber" ->
         IF is_some(f.line) THEN DecimalString(unwrap(f.line)) ELSE <<>>
    [] item.tag = "ColumnNumber" ->
         IF is_some(f.column) THEN DecimalString(unwrap(f.column)) ELSE <<>>
    [] item.tag = "ModulePath" ->
         IF is_some(f.module_path) THEN unwrap(f.module_path) ELSE <<>>
    [] item.tag = "File" ->
         IF is_some(f.file) THEN unwrap(f.file) ELSE <<>>
    [] item.tag = "LogLevel" -> SeverityName(level)
    [] item.tag = "LogString" -> message
    [] item.tag = "CustomCharacter" -> item.arg
    [] item.tag = "CustomString" -> item.arg
    [] item.tag = "TimeString" -> FrozenTimeString(item.arg)

RECURSIVE Concatenation(_)
Concatenation(strings) ==
  IF Len(strings) = 0 THEN <<>>
  ELSE strings[1] \o Concatenation(Tail(strings))

\* C13: for a template that has a frozen timestamp or no TimeString token,
\* build_string returns the strings of its tokens concatenated in the
\* order of the tokens, with no separator: the decimal digits of the line
\* or column ("0" for 0), the module path or the file, each empty when
\* unset, the name of the severity, the message as it is, the literal of
\* a CustomCharacter or CustomString, the frozen timestamp under the
\* pattern of a TimeString; a template with no tokens gives the empty
\* string.
C13_BuildString ==
  is_some(fmt.r) =>
    LET r == unwrap(fmt.r)
        f == fmt[r.side]
    IN  ~reads_clock(f) =>
          /\ r.out = Concatenation([i \in 1..Len(f.items) |->
                                      TokenString(f, f.items[i], r.level, r.message)])
          /\ Len(f.items) = 0 => r.out = <<>>

\* C13 witness: a template with the column 0 set and the tokens
\* ColumnNumber, LineNumber rendered to "0345".
C13_Witness ==
  /\ is_some(fmt.r)
  /\ unwrap(fmt.r).side = "b"
  /\ fmt.b.column = Some(0)
  /\ fmt.b.items = <<FormatItem_ColumnNumber, FormatItem_LineNumber>>
  /\ unwrap(fmt.r).out = <<"0","3","4","5">>

\* The twelve tokens of the default template.
DefaultTokens ==
  << [tag |-> "CustomCharacter", arg |-> <<"[">>],
     [tag |-> "TimeString", arg |-> <<"%","k",":","%","M",":","%","S">>],
     [tag |-> "CustomString", arg |-> <<"]"," ","(">>],
     [tag |-> "ModulePath", arg |-> <<>>],
     [tag |-> "CustomCharacter", arg |-> <<" ">>],
     [tag |-> "LineNumber", arg |-> <<>>],
     [tag |-> "CustomCharacter", arg |-> <<":">>],
     [tag |-> "ColumnNumber", arg |-> <<>>],
     [tag |-> "CustomString", arg |-> <<")"," ">>],
     [tag |-> "LogLevel", arg |-> <<>>],
     [tag |-> "CustomString", arg |-> <<":"," ">>],
     [tag |-> "LogString", arg |-> <<>>] >>

\* A rendering of the default template with its module path, line, column
\* and frozen timestamp set.
DefaultRendered ==
  /\ is_some(fmt.r)
  /\ unwrap(fmt.r).side = "a"
  /\ fmt.a.items = DefaultTokens
  /\ is_some(fmt.a.module_path) /\ is_some(fmt.a.line)
  /\ is_some(fmt.a.column) /\ is_some(fmt.a.custom_time)

\* C14: Format::default() is the twelve tokens '[', TimeString("%k:%M:%S"),
\* "] (", ModulePath, ' ', LineNumber, ':', ColumnNumber, ") ", LogLevel,
\* ": ", LogString with no field set; with module path M, line L, column C
\* and a frozen timestamp set it renders severity S and message m to
\* "[HH:MM:SS] (M L:C) S: m".
C14_DefaultTemplate ==
  /\ Format_default =
       [items |-> DefaultTokens, column |-> None, line |-> None, file |-> None,
        module_path |-> None, custom_time |-> None]
  /\ Len(Format_default.items) = 12
  /\ DefaultRendered =>
       unwrap(fmt.r).out =
         <<"[">> \o <<"2","0",":","5","2",":","3","7">> \o <<"]"," ","(">>
         \o unwrap(fmt.a.module_path) \o <<" ">>
         \o DecimalString(unwrap(fmt.a.line)) \o <<":">>
         \o DecimalString(unwrap(fmt.a.column)) \o <<")"," ">>
         \o SeverityName(unwrap(fmt.r).level) \o <<":"," ">>
         \o unwrap(fmt.r).message

\* C14 witness: the default template with module path "m", line 12,
\* column 1 and the frozen timestamp 20:52:37 rendered a Warning "hi".
C14_Witness ==
  /\ DefaultRendered
  /\ unwrap(fmt.r).level = "Warning"
  /\ unwrap(fmt.r).out =
       <<"[","2","0",":","5","2",":","3","7","]"," ","(","m"," ","1","2",":","1",
         ")"," ","W","a","r","n","i","n","g",":"," ","h","i">>

\* The last two operations were log_item calls on two String Sinks with
\* equal overrides (or none), for records equal by value.
SameStringCallTwice ==
  /\ last.op = "string_log"
  /\ last.prev.op = "string_log"
  /\ last.prev.ovr = last.ovr
  /\ last.prev.item = last.item

\* C15 as stated: two String Sinks with equal overrides return identical
\* strings for records that are equal by value.
C15_AsStated ==
  SameStringCallTwice => last.ret = last.prev.ret

\* C15 amended: the same, when the override merged with the record's
\* template has a frozen timestamp or no TimeString token; whatever the
\* clock reads at the two calls.
C15_StringSinkDeterministic ==
  (SameStringCallTwice /\ ~reads_clock(effective_format(last.ovr, last.item))) =>
    last.ret = last.prev.ret

\* C15 witness: the two calls were made at different instants, with an
\* override that has a frozen timestamp and a record whose template has a
\* TimeString token, and returned the same non-empty string.
C15_Witness ==
  /\ SameStringCallTwice
  /\ last.now # last.prev.now
  /\ is_some(last.ovr)
  /\ is_some(unwrap(last.ovr).custom_time)
  /\ \E i \in 1..Len(last.item.format.items) :
       last.item.format.items[i].tag = "TimeString"
  /\ Len(last.ret.val) > 0
  /\ last.ret = last.prev.ret

\* The records of one severity, over the messages and templates in use.
ItemsOfLevel(level) ==
  {LogItem_new(f, level, m) : f \in RecordFormats, m \in SeqMessages}

\* This step is a log call on the File Sink in which can_log_item ran.
CanLogItemAsked ==
  /\ last'.seq # last.seq
  /\ last'.op = "log"
  /\ ~last'.lockErr
  /\ Len(last'.events) >= 1
  /\ last'.events[1] = "can_log_item"

\* C16: can_log_item is a query.  In every configuration the File Sink
\* reaches, its answer for a record is `the severity is not on the
\* deny-list`, the same for all records of one severity whatever their
\* message and template; the String Sink answers true for every record;
\* and a log call that can_log_item declines leaves the sink, the files
\* and the mutex as they were, as does the query in a call it lets pass.
C16_CanLogItemPure ==
  /\ [](/\ \A level \in LogLevel : \A i \in ItemsOfLevel(level) :
             /\ FileLogger_can_log_item(logger, i)
                  = ~contains(logger.restricted_log_levels, level)
             /\ Logger_can_log_item(i)
        /\ (last.op = "log" /\ ~last.lockErr) =>
             last.can = ~contains(logger.restricted_log_levels, last.item.level)
        /\ last.op = "string_log" => last.can)
  /\ [][CanLogItemAsked =>
          /\ logger' = logger
          /\ ~last'.can => (fs' = fs /\ lock' = lock /\ pc' = pc)]_vars

\* C16 witness: with Error on the deny-list and a file open, a log call
\* with a non-empty message and the call site's template was declined.
C16_Witness ==
  /\ last.op = "log"
  /\ ~last.lockErr
  /\ ~last.can
  /\ last.item.level = "Error"
  /\ Len(last.item.message) > 0
  /\ last.item.format = CallSiteFormat
  /\ is_some(logger.file)
  /\ contains(logger.restricted_log_levels, "Error")

\* The last operation was set_output_file and it got the mutex.
OpenFileRan == last.op = "set_output_file" /\ ~last.lockErr

\* C17: when the open fails, set_output_file returns Err with the I/O
\* error and the sink is as it was, the handle held before included, and
\* a later log call writes to that handle's file; when it succeeds it
\* returns Ok and the sink holds a handle on the new path, whatever it
\* held before.  The open changes no other part of the sink and no file,
\* and every write goes to the end of the file of the handle held: a
\* file's bytes only grow.
C17_OpenFile ==
  /\ [](/\ OpenFileRan =>
             IF last.failed
             THEN last.ret = RetErr(IoError) /\ logger.file = last.handle
             ELSE last.ret = RetOk /\ logger.file = Some(last.path)
        /\ \A t \in Threads : InLogItem(t) => logger.file = Some(cur[t].path))
  /\ [][/\ (last'.seq # last.seq /\ last'.op = "set_output_file") =>
             /\ fs' = fs
             /\ logger' = [logger EXCEPT !.file = logger'.file]
             /\ last'.failed => logger' = logger
        /\ \A p \in Paths : IsPrefix(fs[p], fs'[p])
        /\ \A p \in Paths : fs'[p] # fs[p] => logger.file = Some(p)]_vars

\* C17 witness: with a handle on a.log held, the open of b.log failed,
\* the call returned Err and the sink still holds the handle on a.log.
C17_Witness ==
  /\ OpenFileRan
  /\ last.failed
  /\ last.path = "b.log"
  /\ last.handle = Some("a.log")
  /\ last.ret = RetErr(IoError)
  /\ logger.file = Some("a.log")

\* The last operation was close_output_file and it got the mutex.
CloseFileRan == last.op = "close_output_file" /\ ~last.lockErr

\* C18: close_file leaves the sink without a handle, whatever it held, and
\* changes nothing else; closing a sink that holds no handle changes
\* nothing; close_output_file that got the mutex returns Ok in both cases;
\* and as long as the sink holds no handle no log call writes to any
\* file.
C18_CloseFile ==
  /\ [](/\ is_none(close_file(logger).file)
        /\ close_file(logger) = [logger EXCEPT !.file = None]
        /\ close_file(close_file(logger)) = close_file(logger)
        /\ CloseFileRan => (is_none(logger.file) /\ last.ret = RetOk)
        /\ is_none(logger.file) => \A t \in Threads : ~InLogItem(t))
  /\ [][/\ (last'.seq # last.seq /\ last'.op = "close_output_file"
            /\ ~last'.lockErr /\ is_none(logger.file)) =>
             (logger' = logger /\ fs' = fs /\ last'.ret = RetOk)
        /\ is_none(logger.file) => fs' = fs]_vars

\* C18 witness: a file was opened and written, then closed, and a second
\* close found no handle and returned Ok.
C18_Witness ==
  /\ CloseFileRan
  /\ is_none(last.handle)
  /\ is_none(logger.file)
  /\ last.ret = RetOk
  /\ \E p \in Paths : Len(Lines(p).full) = 1

\* C19: append(t) followed by pop_last gives back the template it
\* started from, tokens and fields, for every token sequence and every
\* combination of fields the builder methods produce and every token t.
C19_AppendPopLast ==
  /\ is_some(fmt.u) => unwrap(fmt.u).out = fmt[unwrap(fmt.u).side]
  /\ \A side \in Sides : \A item \in RenderItems :
       /\ pop_last(append(fmt[side], item)) = fmt[side]
       /\ append(fmt[side], item).items = fmt[side].items \o <<item>>

\* C19 witness: append and pop_last ran on a template with two tokens, a
\* line and a frozen timestamp, and gave it back.
C19_Witness ==
  /\ is_some(fmt.u)
  /\ unwrap(fmt.u).side = "a"
  /\ Len(fmt.a.items) = 2
  /\ fmt.a.items[1] # fmt.a.items[2]
  /\ unwrap(fmt.u).item = fmt.a.items[1]
  /\ is_some(fmt.a.line) /\ is_some(fmt.a.custom_time)
  /\ unwrap(fmt.u).out = fmt.a

\* The last operation was a log call that reached __log_message on the
\* File Sink and returned.
FileDispatchReturned ==
  last.op = "log" /\ ~last.lockErr /\ ~last.panicked

\* C20: a log call dispatched to the File Sink returns None exactly when
\* the severity is on the deny-list and Some(()) otherwise, also when the
\* sink holds no handle and when a write failed under the default policy:
\* with no handle the call returns Some(()) and no file changes, so Some
\* does not tell that a line was written.
C20_SomeWithoutWrite ==
  /\ [](FileDispatchReturned =>
          /\ last.ret = RetNone
               <=> contains(logger.restricted_log_levels, last.item.level)
          /\ last.ret # RetNone => last.ret = RetSome(Unit)
          /\ (is_none(last.handle) /\ last.can) =>
               (last.ret = RetSome(Unit) /\ last.written = <<>>))
  /\ [][(last'.seq # last.seq /\ last'.op = "log" /\ is_none(logger.file)) =>
          fs' = fs]_vars

\* C20 witness: with Error on the deny-list, no handle held and every
\* file empty, a log call of severity Information returned Some(()).
C20_Witness ==
  /\ FileDispatchReturned
  /\ last.item.level = "Information"
  /\ contains(logger.restricted_log_levels, "Error")
  /\ is_none(last.handle)
  /\ is_none(logger.file)
  /\ ~logger.panic_on_fail
  /\ \A p \in Paths : fs[p] = <<>>
  /\ last.ret = RetSome(Unit)

\* C21: a panic inside log_item (panic_on_fail set and a failing write or
\* flush) poisons the mutex of the default sink, and the mutex is poisoned
\* only so.  From then on it stays poisoned, the sink and the files never
\* change, no thread enters log_item, and every operation that completes
\* found the lock failed: a log call returns None without asking
\* can_log_item, whatever its severity, and set_output_file,
\* close_output_file, restrict_log_levels and allow_log_levels return Err.
C21_PoisonedForGood ==
  /\ [](lock.poisoned =>
          /\ is_none(lock.holder)
          /\ \A t \in Threads : ~InLogItem(t)
          /\ \E t \in Threads : pc[t] = "panicked")
  /\ [][/\ (last'.seq # last.seq /\ last'.panicked) =>
             (lock'.poisoned /\ logger.panic_on_fail /\ fails' # fails)
        /\ (~lock.poisoned /\ lock'.poisoned) =>
             (last'.seq # last.seq /\ last'.op = "log" /\ last'.panicked)
        /\ lock.poisoned =>
             /\ lock'.poisoned
             /\ logger' = logger
             /\ fs' = fs
             /\ last'.seq # last.seq =>
                  /\ last'.lockErr
                  /\ ~last'.panicked
                  /\ last'.op = "log" =>
                       (last'.ret = RetNone /\ last'.events = <<>>
                        /\ last'.written = <<>>)
                  /\ last'.op # "log" => last'.ret.kind = "Err"]_vars

\* C21 witness: after the panic, with a handle still held and nothing on
\* the deny-list, a log call of severity Information returned None.
C21_Witness ==
  /\ lock.poisoned
  /\ last.op = "log"
  /\ last.lockErr
  /\ last.item.level = "Information"
  /\ logger.restricted_log_levels = <<>>
  /\ is_some(logger.file)
  /\ logger.panic_on_fail
  /\ last.ret = RetNone

\* Path p is not the file of the handle the sink holds.
NotHeld(p) == logger.file # Some(p)

Configuration(l) ==
  [restricted_log_levels |-> l.restricted_log_levels,
   override_format |-> l.override_format,
   panic_on_fail |-> l.panic_on_fail,
   held |-> is_some(l.file)]

\* C23: each component of the File Sink changes only through its own
\* operation.  A log call, with can_log_item and every step of log_item,
\* a failing write under the default policy included, leaves the
\* deny-list, the override, the flag and the handle as they are;
\* set_output_file and close_output_file change at most the handle;
\* restrict_log_levels and allow_log_levels at most the deny-list;
\* set_override only the override and set_panic_on_fail only the flag.
\* So the deny-list is the same after a close and a later open.
C23_Frame ==
  [][/\ logger' # logger => last'.seq # last.seq
     /\ (\E t \in Threads : InLogItem(t)) =>
          (logger' = logger /\ Configuration(logger') = Configuration(logger))
     /\ last'.seq # last.seq =>
          /\ last'.op \in {"log", "string_log"} => logger' = logger
          /\ last'.op \in {"set_output_file", "close_output_file"} =>
               logger' = [logger EXCEPT !.file = logger'.file]
          /\ last'.op \in {"restrict_log_levels", "allow_log_levels"} =>
               logger' = [logger EXCEPT !.restricted_log_levels =
                                          logger'.restricted_log_levels]
          /\ last'.op = "set_override" =>
               logger' = [logger EXCEPT !.override_format = logger'.override_format]
          /\ last'.op = "set_panic_on_fail" =>
               logger' = [logger EXCEPT !.panic_on_fail = logger'.panic_on_fail]]_vars

\* C23 witness: with Error on the deny-list, an override set and a handle
\* held, a log call whose write failed under the default policy returned
\* and the sink still has all three.
C23_Witness ==
  /\ last.op = "log"
  /\ last.failed
  /\ ~last.panicked
  /\ last.ret = RetSome(Unit)
  /\ ~logger.panic_on_fail
  /\ logger.restricted_log_levels = <<"Error">>
  /\ is_some(logger.override_format)
  /\ logger.file = last.handle
  /\ is_some(logger.file)

====
